---- MODULE Spec2Model ----
(***************************************************************************)
(* Model of kenken-neko/tfkeras_image_classification:                      *)
(*   src/original_dataset_loader.py  class OriginalDatasetLoader           *)
(*   src/scripts/train.py            main()                                *)
(*                                                                         *)
(* Two specifications share the module.  Spec is the dataset loader run    *)
(* against a directory tree that other processes may change; SpecMain is   *)
(* the straight-line training driver.                                      *)
(*                                                                         *)
(* Representation.                                                         *)
(*  - A name at the label level is the sequence of its code points, so     *)
(*    that Python's str ordering (used by sorted()) is computed, not       *)
(*    assumed: <<99,97,116>> is "cat".                                     *)
(*  - An image path root/<label>/<file> is the pair <<label, file>>.       *)
(*  - valid_per_train is the pair <<num, den>> of the number the caller    *)
(*    wrote; the loader computes on the binary64 float nearest to it.  The *)
(*    driver is given multiples of 1/4, on which its float arithmetic is   *)
(*    exact.                                                               *)
(*  - A tf.data dataset is the finite sequence of its elements; a decoded  *)
(*    image is represented by the path it is decoded from.                 *)
(***************************************************************************)
EXTENDS Integers, Sequences, FiniteSets, TLC

VARIABLES
    fs,                 \* the directory tree under dataset_path
    fs_changes,         \* changes made to the tree since __init__ began
    l_pc,               \* where the loader is: "new", "listing" (inside
                        \* __init__), "constructed", "loading" (inside
                        \* load()), or the exception __init__ raised
    pending,            \* entries listed by the running glob, not visited yet
    met,                \* directory names the running label pass has kept
    disturbed,          \* the tree changed while the running load() read it
    valid_per_train,    \* constructor argument, <<num, den>>
    image_paths,        \* self._image_paths
    num_train_images,   \* self._num_train_images
    info,               \* self._info
    label_names,        \* label_names of the last load() call
    label_to_index,     \* label_to_index of the last load() call
    ret,                \* outcome of the last load() call, status "none"
                        \* before the first and while one is running
    snapshot_dirs,      \* the directories __init__ found when it listed
                        \* the root
    label_of,           \* path -> index pairs of the last load that
                        \* returned, read the tree undisturbed, and whose
                        \* tree has not changed since
    m_pc,               \* position of main()
    args,               \* main()'s arguments
    train_dataset,      \* operations applied to the train partition, in order
    valid_dataset,      \* operations applied to the validation partition
    trace,              \* the steps main() has completed, in order
    m_model,            \* the model object: "none", then its type and stage
    m_err               \* the exception main() ended with, "none" if none

loader_vars == <<l_pc, pending, met, disturbed, valid_per_train, image_paths,
                 num_train_images, info, label_names, label_to_index, ret,
                 snapshot_dirs, label_of>>
env_vars == <<fs, fs_changes>>
main_vars == <<m_pc, args, train_dataset, valid_dataset, trace, m_model,
               m_err>>
vars == <<fs, fs_changes, l_pc, pending, met, disturbed, valid_per_train,
          image_paths,
          num_train_images, info, label_names, label_to_index, ret,
          snapshot_dirs, label_of, m_pc, args,
          train_dataset, valid_dataset, trace, m_model, m_err>>

(***************************************************************************)
(* Bounds of the model.                                                    *)
(***************************************************************************)
MaxImages == 2
MaxFsChanges == 1

(***************************************************************************)
(* Input sets.                                                             *)
(***************************************************************************)
\* "Dog", "ca", "cat": an upper-case name, and a name that is a prefix of
\* another one, so that code-point order and prefix order both matter.
EntryNames == {<<68, 111, 103>>, <<99, 97>>, <<99, 97, 116>>}
\* The files of a directory, in the order in which they were written to it.
ImageFiles == <<"a.jpg", "b.jpg">>
\* -0.5, 0.7, 1.0, 1.5, as the caller wrote them
Fractions == {<<-1, 2>>, <<7, 10>>, <<1, 1>>, <<3, 2>>}

(***************************************************************************)
(* The directory tree.  fs maps every candidate name to what is found      *)
(* under the root with that name: nothing, a plain file, or a directory    *)
(* holding a set of files.                                                 *)
(***************************************************************************)
NoEntry == [kind |-> "none", files |-> {}]
PlainFile == [kind |-> "file", files |-> {}]
Directory(files) == [kind |-> "dir", files |-> files]

Entries(tree) == {n \in EntryNames : tree[n].kind # "none"}
is_dir(tree, n) == tree[n].kind = "dir"
Dirs(tree) == {n \in Entries(tree) : is_dir(tree, n)}
ImagePathsIn(tree) ==
    UNION {{<<d, f>> : f \in tree[d].files} : d \in Dirs(tree)}
NumImagesIn(tree) == Cardinality(ImagePathsIn(tree))

FirstFiles(k) == {ImageFiles[i] : i \in 1..k}
Trees ==
    {t \in [EntryNames -> {NoEntry, PlainFile}
                          \cup {Directory(FirstFiles(k)) :
                                    k \in 0..Len(ImageFiles)}] :
        NumImagesIn(t) <= MaxImages}

(***************************************************************************)
(* Helpers on sequences.                                                   *)
(***************************************************************************)
Range(s) == {s[i] : i \in 1..Len(s)}
Perms(S) ==
    {s \in [1..Cardinality(S) -> S] :
        \A i, j \in 1..Cardinality(S) : i # j => s[i] # s[j]}

(***************************************************************************)
(* pathlib.Path.glob.  The order in which a directory is listed is the     *)
(* file system's: any order is possible, and two listings of the same      *)
(* directory need not agree.  A glob lists the root in one scandir and     *)
(* then visits the entries it kept one at a time; the tree may change      *)
(* between the visits.                                                     *)
(***************************************************************************)
\* glob('*/*'), first component: the root's directories, in any order.
ListRootDirs(tree) == Perms(Dirs(tree))
\* glob('*/*'), second component: scandir of one directory kept from the
\* root's listing.  A name that is gone by then, or that is a plain file
\* by then, makes scandir raise.
ScandirError(tree, d) ==
    CASE tree[d].kind = "none" -> "FileNotFoundError"
      [] tree[d].kind = "file" -> "NotADirectoryError"
      [] OTHER -> "none"
ListChildren(tree, d) ==
    {[i \in 1..Len(order) |-> <<d, order[i]>>] :
        order \in Perms(tree[d].files)}
\* glob('*/'): the root's listing.  A pattern that ends in the separator
\* yields the directories only (Python 3.11; an older one yields the plain
\* files as well, which the is_dir() of line 53 then drops).
GlobEntries(tree) == Perms(Dirs(tree))

(***************************************************************************)
(* Python built-ins used by the loader.                                    *)
(***************************************************************************)
\* str.__lt__: code point by code point, a proper prefix is smaller.
RECURSIVE StrLess(_, _)
StrLess(a, b) ==
    IF a = <<>> THEN b # <<>>
    ELSE IF b = <<>> THEN FALSE
    ELSE IF Head(a) # Head(b) THEN Head(a) < Head(b)
    ELSE StrLess(Tail(a), Tail(b))

RECURSIVE InsertSorted(_, _)
InsertSorted(x, s) ==
    IF s = <<>> THEN <<x>>
    ELSE IF StrLess(x, Head(s)) THEN <<x>> \o s
    ELSE <<Head(s)>> \o InsertSorted(x, Tail(s))

\* sorted(): the result of a comparison sort on str.
RECURSIVE sorted(_)
sorted(s) ==
    IF s = <<>> THEN <<>> ELSE InsertSorted(Head(s), sorted(Tail(s)))

\* int(x) for x = n / d: truncation toward zero.
IntTrunc(n, d) == IF n >= 0 THEN n \div d ELSE -((-n) \div d)

(***************************************************************************)
(* Python floats.  A float is an IEEE 754 binary64 number                  *)
(*     sign * (a * 2^36 + b * 2^18 + c) * 2^exp                            *)
(* whose 53-bit significand is held in the three limbs a, b, c, with       *)
(* 2^16 <= a < 2^17 unless the number is zero.  The operations round to    *)
(* nearest, ties to even, as the hardware does.  They are defined for the  *)
(* magnitudes that occur here: integers below 2^13, fractions whose        *)
(* numerator and denominator are below 2^10.                               *)
(***************************************************************************)
Limb == 2^18
TopLimb == 2^17
FloatZero == [sign |-> 1, a |-> 0, b |-> 0, c |-> 0, exp |-> 0]

\* The next float away from zero.
FloatSucc(x) ==
    IF x.c + 1 < Limb THEN [x EXCEPT !.c = x.c + 1]
    ELSE IF x.b + 1 < Limb THEN [x EXCEPT !.c = 0, !.b = x.b + 1]
    ELSE IF x.a + 1 < TopLimb
    THEN [x EXCEPT !.c = 0, !.b = 0, !.a = x.a + 1]
    ELSE [x EXCEPT !.c = 0, !.b = 0, !.a = TopLimb \div 2,
                   !.exp = x.exp + 1]

\* float("num/den" written as a decimal), or num / den: the float nearest
\* to the rational.  With x / d the rational scaled into [1, 2), the limbs
\* are the digits of the long division of x by d.
ToFloat(fraction) ==
    IF fraction[1] = 0 THEN FloatZero
    ELSE LET n == IF fraction[1] < 0 THEN -fraction[1] ELSE fraction[1]
             den == fraction[2]
             e == CHOOSE e \in -20..20 :
                     IF e >= 0
                     THEN den * 2^e <= n /\ n < 2 * den * 2^e
                     ELSE den <= n * 2^(-e) /\ n * 2^(-e) < 2 * den
             x == IF e >= 0 THEN n ELSE n * 2^(-e)
             d == IF e >= 0 THEN den * 2^e ELSE den
             a == (x * (TopLimb \div 2)) \div d
             ra == (x * (TopLimb \div 2)) % d
             b == (ra * Limb) \div d
             rb == (ra * Limb) % d
             c == (rb * Limb) \div d
             rc == (rb * Limb) % d
             down == [sign |-> IF fraction[1] < 0 THEN -1 ELSE 1,
                      a |-> a, b |-> b, c |-> c, exp |-> e - 52]
             up == \/ 2 * rc > d
                   \/ 2 * rc = d /\ c % 2 = 1
         IN  IF up THEN FloatSucc(down) ELSE down

\* int * float: the int is converted exactly, the product is rounded.
FloatMul(n, x) ==
    IF n = 0 \/ x.a = 0 THEN FloatZero
    ELSE LET pc == n * x.c
             pb == n * x.b + pc \div Limb
             pa == n * x.a + pb \div Limb
             k == CHOOSE k \in 0..13 :
                     /\ pa < TopLimb * 2^k
                     /\ k = 0 \/ pa >= (TopLimb \div 2) * 2^k
             sh == 2^k
             down == [sign |-> x.sign,
                      a |-> pa \div sh,
                      b |-> (pa % sh) * (Limb \div sh) + (pb % Limb) \div sh,
                      c |-> ((pb % Limb) % sh) * (Limb \div sh)
                               + (pc % Limb) \div sh,
                      exp |-> x.exp + k]
             rest == (pc % Limb) % sh
             up == \/ 2 * rest > sh
                   \/ k > 0 /\ 2 * rest = sh /\ down.c % 2 = 1
         IN  IF up THEN FloatSucc(down) ELSE down

\* int(float): the digits before the point, the sign kept.
FloatToInt(x) ==
    IF x.a = 0 \/ -x.exp >= 53 THEN 0
    ELSE IF -x.exp >= 36 THEN x.sign * (x.a \div 2^(-x.exp - 36))
    ELSE x.sign * (x.a * 2^(36 + x.exp) + x.b \div 2^(-x.exp - 18))

(***************************************************************************)
(* tf.data primitives, on finite sequences.                                *)
(***************************************************************************)
\* Dataset.take(count): a negative count, or one beyond the end, takes all.
Take(ds, count) ==
    IF count < 0 \/ count >= Len(ds) THEN ds ELSE SubSeq(ds, 1, count)
\* Dataset.skip(count): a negative count, or one beyond the end, skips all.
Skip(ds, count) ==
    IF count < 0 \/ count >= Len(ds) THEN <<>>
    ELSE SubSeq(ds, count + 1, Len(ds))
\* Dataset.zip((a, b)) followed by map(lambda x, y: {"image": x, "label": y})
ZipDict(images, labels) ==
    LET n == IF Len(images) <= Len(labels) THEN Len(images) ELSE Len(labels)
    IN  [i \in 1..n |-> [image |-> images[i], label |-> labels[i]]]

(***************************************************************************)
(* OriginalDatasetLoader.                                                  *)
(***************************************************************************)
hight_size == 256
width_size == 256
channel_size == 3

EmptyInfo == [k \in {} |-> 0]
NoReturn(status) ==
    [status |-> status, train |-> <<>>, valid |-> <<>>, info |-> EmptyInfo]

\* __init__, line 23
NumTrainImages(num_images, fraction) ==
    FloatToInt(FloatMul(num_images, ToFloat(fraction)))

\* __init__, lines 25-28
InitialInfo ==
    ("hight_size" :> hight_size) @@ ("width_size" :> width_size)
        @@ ("channel_size" :> channel_size)

\* Variant: only the directories known at construction are labels.
StatEntry_of_snapshot(tree, kept, n) ==
    IF is_dir(tree, n) /\ n \in snapshot_dirs THEN Append(kept, n) ELSE kept
\* Variant: the names kept in the order met, sorted() left out.
LabelNames_as_met(kept) == kept

\* _load_label_ds, line 53: "item.name for item in glob('*/') if
\* item.is_dir()", one item: is_dir() is a stat of the tree as it is when
\* the item is visited, False for a name that is gone.
StatEntry(tree, kept, n) == IF is_dir(tree, n) THEN Append(kept, n) ELSE kept
\* _load_label_ds, lines 52-54: the names kept, sorted.
LabelNames(kept) == sorted(kept)

\* _load_label_ds, lines 55-57: enumerate() counts from zero.
LabelToIndex(names) ==
    [n \in Range(names) |-> (CHOOSE i \in 1..Len(names) : names[i] = n) - 1]

\* Variant: dict.get(name, 0) in place of the subscript.
ImageLabels_default(paths, l2i) ==
    [error |-> "none",
     labels |-> [i \in 1..Len(paths) |->
                    IF paths[i][1] \in DOMAIN l2i THEN l2i[paths[i][1]]
                    ELSE 0]]

\* _load_label_ds, lines 58-61: pathlib.Path(path).parent.name is the first
\* component of the pair; a name missing from the dict raises KeyError.
ParentName(path) == path[1]
ImageLabels(paths, l2i) ==
    IF \E i \in 1..Len(paths) : ParentName(paths[i]) \notin DOMAIN l2i
    THEN [error |-> "KeyError", labels |-> <<>>]
    ELSE [error |-> "none",
          labels |-> [i \in 1..Len(paths) |-> l2i[ParentName(paths[i])]]]

\* Variant: the class count taken as the largest index plus one.
NumClasses_max_plus_one(image_labels) ==
    (CHOOSE m \in Range(image_labels) :
        \A x \in Range(image_labels) : x <= m) + 1

\* _load_label_ds, lines 69-70
NumClasses(image_labels) == Cardinality(Range(image_labels))

\* _load_image_ds, lines 42-49.  from_tensor_slices([]) is a float32
\* dataset, and mapping tf.io.read_file over it is rejected when map()
\* traces _preprocess_image: with no image path the call raises TypeError.
\* Otherwise nothing is read yet: decoding happens when the dataset is
\* iterated.
load_image_ds(paths, num_train) ==
    IF paths = <<>>
    THEN [error |-> "TypeError", train |-> <<>>, valid |-> <<>>]
    ELSE [error |-> "none",
          train |-> Take(paths, num_train),
          valid |-> Skip(paths, num_train)]

\* _load_label_ds, lines 62-66
load_label_ds(image_labels, num_train) ==
    [train |-> Take(image_labels, num_train),
     valid |-> Skip(image_labels, num_train)]

\* _load_label_ds, line 70: self._info.update({"num_classes": ...})
InfoUpdate(old, key, value) == (key :> value) @@ old

(***************************************************************************)
(* Initial state of the loader specification: any tree, no loader yet, the *)
(* driver idle.                                                            *)
(***************************************************************************)
MainIdle ==
    /\ m_pc = "idle"
    /\ args = <<>>
    /\ train_dataset = <<>>
    /\ valid_dataset = <<>>
    /\ trace = <<>>
    /\ m_model = [type |-> "none", stage |-> "none"]
    /\ m_err = "none"

NoLoader ==
    /\ l_pc = "new"
    /\ pending = <<>>
    /\ met = <<>>
    /\ disturbed = FALSE
    /\ valid_per_train = <<0, 1>>
    /\ image_paths = <<>>
    /\ num_train_images = 0
    /\ info = EmptyInfo
    /\ label_names = <<>>
    /\ label_to_index = EmptyInfo
    /\ ret = NoReturn("none")
    /\ snapshot_dirs = {}
    /\ label_of = {}

Init ==
    /\ fs \in Trees
    /\ fs_changes = 0
    /\ NoLoader
    /\ MainIdle

(***************************************************************************)
(* OriginalDatasetLoader(dataset_path, valid_per_train): lines 9-28.       *)
(* One loader object is followed from its construction on.  list(glob())   *)
(* at line 19 lists the root, then each directory it found there; a        *)
(* directory that has gone, or has become a plain file, ends __init__ with *)
(* the error of scandir and there is no loader object.                     *)
(***************************************************************************)
\* lines 20-28, once glob is exhausted
ConstructFinish(paths, f) ==
    /\ l_pc' = "constructed"
    /\ pending' = <<>>
    /\ image_paths' = paths
    /\ num_train_images' = NumTrainImages(Len(paths), f)
    /\ info' = InitialInfo

\* lines 17-19: the listing of the root
ConstructListRoot ==
    \E f \in Fractions, order \in ListRootDirs(fs) :
        /\ l_pc = "new"
        /\ valid_per_train' = f
        /\ snapshot_dirs' = Dirs(fs)
        /\ IF order = <<>>
           THEN ConstructFinish(<<>>, f)
           ELSE /\ l_pc' = "listing"
                /\ pending' = order
                /\ image_paths' = <<>>
                /\ UNCHANGED <<num_train_images, info>>
        /\ UNCHANGED <<met, disturbed, label_names, label_to_index, ret,
                       label_of>>
        /\ UNCHANGED env_vars
        /\ UNCHANGED main_vars

\* line 19: the listing of the next directory
ConstructListDir ==
    /\ l_pc = "listing"
    /\ LET d == Head(pending)
       IN  IF ScandirError(fs, d) # "none"
           THEN /\ l_pc' = ScandirError(fs, d)
                /\ pending' = <<>>
                /\ image_paths' = <<>>
                /\ UNCHANGED <<num_train_images, info>>
           ELSE \E children \in ListChildren(fs, d) :
                  IF Tail(pending) = <<>>
                  THEN ConstructFinish(image_paths \o children,
                                       valid_per_train)
                  ELSE /\ image_paths' = image_paths \o children
                       /\ pending' = Tail(pending)
                       /\ UNCHANGED <<l_pc, num_train_images, info>>
    /\ UNCHANGED <<met, disturbed, valid_per_train, label_names,
                   label_to_index, ret, snapshot_dirs, label_of>>
    /\ UNCHANGED env_vars
    /\ UNCHANGED main_vars

(***************************************************************************)
(* load(): lines 73-86, with _load_image_ds and _load_label_ds.  The only  *)
(* reads of the tree are those of line 53: the listing of the root, then   *)
(* one is_dir() per item.  What follows the last of them reads nothing and *)
(* is part of the same step.                                               *)
(***************************************************************************)
\* lines 52-71 from sorted() on, and lines 77-86
LoadFinish(kept, undisturbed) ==
    LET image_ds == load_image_ds(image_paths, num_train_images)
        names == LabelNames(kept)
        l2i == LabelToIndex(names)
        looked_up == ImageLabels(image_paths, l2i)
        image_labels == looked_up.labels
    IN  /\ label_names' = names
        /\ label_to_index' = l2i
        /\ IF looked_up.error # "none"
           THEN /\ ret' = NoReturn(looked_up.error)
                /\ label_of' = {}
                /\ UNCHANGED info
           ELSE LET label_ds ==
                        load_label_ds(image_labels, num_train_images)
                    new_info ==
                        InfoUpdate(info, "num_classes",
                                   NumClasses(image_labels))
                IN  /\ info' = new_info
                    /\ ret' =
                         [status |-> "ok",
                          train |-> ZipDict(image_ds.train, label_ds.train),
                          valid |-> ZipDict(image_ds.valid, label_ds.valid),
                          info |-> new_info]
                    /\ label_of' =
                         IF undisturbed
                         THEN {<<image_paths[i], image_labels[i]>> :
                                   i \in 1..Len(image_paths)}
                         ELSE {}
        /\ l_pc' = "constructed"
        /\ pending' = <<>>
        /\ met' = <<>>
        /\ disturbed' = FALSE

\* lines 75-76, 41-49 and the listing of line 53
LoadBegin ==
    /\ l_pc = "constructed"
    /\ IF load_image_ds(image_paths, num_train_images).error # "none"
       THEN /\ ret' = NoReturn(load_image_ds(image_paths,
                                             num_train_images).error)
            /\ UNCHANGED <<l_pc, pending, met, disturbed, info, label_names,
                           label_to_index, label_of>>
       ELSE \E enum \in GlobEntries(fs) :
              IF enum = <<>>
              THEN LoadFinish(<<>>, TRUE)
              ELSE /\ pending' = enum
                   /\ l_pc' = "loading"
                   /\ ret' = NoReturn("none")
                   /\ met' = <<>>
                   /\ disturbed' = FALSE
                   /\ UNCHANGED <<info, label_names, label_to_index,
                                  label_of>>
    /\ UNCHANGED <<valid_per_train, image_paths, num_train_images,
                   snapshot_dirs>>
    /\ UNCHANGED env_vars
    /\ UNCHANGED main_vars

\* line 53, one item of the generator
LoadStat ==
    /\ l_pc = "loading"
    /\ LET kept == StatEntry(fs, met, Head(pending))
       IN  IF Tail(pending) = <<>>
           THEN LoadFinish(kept, ~disturbed)
           ELSE /\ met' = kept
                /\ pending' = Tail(pending)
                /\ UNCHANGED <<l_pc, disturbed, info, label_names,
                               label_to_index, ret, label_of>>
    /\ UNCHANGED <<valid_per_train, image_paths, num_train_images,
                   snapshot_dirs>>
    /\ UNCHANGED env_vars
    /\ UNCHANGED main_vars

(***************************************************************************)
(* Other processes changing the tree under dataset_path, from the moment   *)
(* __init__ has listed the root.  Nothing in the loader excludes them: it  *)
(* holds no lock and keeps no handle open.                                 *)
(***************************************************************************)
FsChange(tree) ==
    /\ l_pc \in {"listing", "constructed", "loading"}
    /\ fs_changes < MaxFsChanges
    /\ fs' = tree
    /\ fs_changes' = fs_changes + 1
    /\ label_of' = {}
    /\ disturbed' = (l_pc = "loading")
    /\ UNCHANGED <<l_pc, pending, met, valid_per_train, image_paths,
                   num_train_images, info, label_names, label_to_index, ret,
                   snapshot_dirs>>
    /\ UNCHANGED main_vars

MkDir ==
    \E n \in EntryNames :
        /\ fs[n].kind = "none"
        /\ FsChange([fs EXCEPT ![n] = Directory({})])

AddPlainFile ==
    \E n \in EntryNames :
        /\ fs[n].kind = "none"
        /\ FsChange([fs EXCEPT ![n] = PlainFile])

Remove ==
    \E n \in EntryNames :
        /\ fs[n].kind # "none"
        /\ FsChange([fs EXCEPT ![n] = NoEntry])

\* rename(2): onto a free name, a directory onto an empty directory, or a
\* plain file onto a plain file; the target is replaced.
Rename ==
    \E a, b \in EntryNames :
        /\ a # b
        /\ fs[a].kind # "none"
        /\ \/ fs[b].kind = "none"
           \/ fs[a].kind = "dir" /\ fs[b] = Directory({})
           \/ fs[a].kind = "file" /\ fs[b].kind = "file"
        /\ FsChange([fs EXCEPT ![b] = fs[a], ![a] = NoEntry])

AddImage ==
    \E d \in EntryNames :
        /\ is_dir(fs, d)
        /\ Cardinality(fs[d].files) < Len(ImageFiles)
        /\ NumImagesIn(fs) < MaxImages
        /\ FsChange([fs EXCEPT ![d] =
                        Directory(FirstFiles(Cardinality(fs[d].files) + 1))])

Next ==
    \/ ConstructListRoot
    \/ ConstructListDir
    \/ LoadBegin
    \/ LoadStat
    \/ MkDir
    \/ AddPlainFile
    \/ Remove
    \/ Rename
    \/ AddImage

Spec == Init /\ [][Next]_vars

(***************************************************************************)
(* scripts/train.py: main().                                               *)
(*                                                                         *)
(* A dataset is the sequence of the pipeline operations that produced it.  *)
(* None is the string "None"; a str argument is true unless None or empty. *)
(***************************************************************************)
Op(name, fn, n) == [op |-> name, fn |-> fn, n |-> n]
Truthy(x) == x \notin {"None", ""}

ModelTypes == {"SimpleCNN", "VGG16", "Xception"}

ArgSets ==
    [dataset_name : {"None", "mnist"},
     original_dataset_path : {"None", "data/catsdogs"},
     dataset_size : {-1, 2},
     augmentation_times : {0, 2},
     valid_per_train : {<<1, 4>>, <<1, 2>>},
     model_type : ModelTypes \cup {"ResNet"}]

\* OriginalDatasetLoader.__init__'s parameters after self, the first two
\* without a default (original_dataset_loader.py lines 11-15), and the call
\* the driver makes (train.py lines 46-52).
LoaderInitParams ==
    <<"dataset_path", "valid_per_train", "hight_size", "width_size",
      "channel_size">>
LoaderInitRequired == {"dataset_path", "valid_per_train"}
DriverLoaderCall ==
    [positional |-> <<"original_dataset_path", "valid_per_train">>,
     keywords |-> {"output_label_dict_path"}]

\* Python's binding of a call to a signature: TypeError unless every
\* keyword names a parameter not already bound and nothing required is
\* left unbound.
CallBinds(params, required, call) ==
    LET npos == Len(call.positional)
        bound == {params[i] : i \in 1..(IF npos <= Len(params) THEN npos
                                         ELSE Len(params))}
    IN  /\ npos <= Len(params)
        /\ call.keywords \subseteq (Range(params) \ bound)
        /\ required \subseteq (bound \cup call.keywords)

\* line 31
train_ratio(fraction) ==
    IntTrunc((fraction[2] - fraction[1]) * 100, fraction[2])

\* Variant: both sources given rejected like none given.
DatasetSource_strict(dataset_name, original_dataset_path) ==
    IF Truthy(dataset_name) /\ ~Truthy(original_dataset_path) THEN "tfds"
    ELSE IF Truthy(original_dataset_path) /\ ~Truthy(dataset_name)
    THEN "directory"
    ELSE "AssertionError"

\* lines 32-59: which source the if / elif / else selects
DatasetSource(dataset_name, original_dataset_path) ==
    IF Truthy(dataset_name) THEN "tfds"
    ELSE IF Truthy(original_dataset_path) THEN "directory"
    ELSE "AssertionError"

\* lines 62-63
dataset_size_step(train, valid, dataset_size) ==
    [train |-> IF dataset_size # -1
               THEN train \o <<Op("shuffle", "", 0),
                               Op("take", "", dataset_size)>>
               ELSE train,
     valid |-> valid]

\* Variant: an unknown model type falls back to the default model.
PreprocessOf_fallback(model_type) ==
    CASE model_type = "VGG16" -> "vgg_preprocess"
      [] model_type = "Xception" -> "xception_preprocess"
      [] OTHER -> "base_preprocess"

\* lines 74-107: the preprocessing function of each model type, ValueError
\* for any other
PreprocessOf(model_type) ==
    CASE model_type = "SimpleCNN" -> "base_preprocess"
      [] model_type = "VGG16" -> "vgg_preprocess"
      [] model_type = "Xception" -> "xception_preprocess"
      [] OTHER -> "ValueError"

preprocess_step(train, valid, fn) ==
    [train |-> Append(train, Op("map", fn, 0)),
     valid |-> Append(valid, Op("map", fn, 0))]

\* Variant: the augmentation applied to both partitions.
augment_step_both(train, valid, augmentation_times) ==
    LET aug(ds) == IF augmentation_times # 0
                   THEN ds \o <<Op("repeat", "", augmentation_times),
                                 Op("map", "rand_augment", 0)>>
                   ELSE ds
    IN  [train |-> aug(train), valid |-> aug(valid)]

\* lines 110-113
augment_step(train, valid, augmentation_times) ==
    [train |-> IF augmentation_times # 0
               THEN train \o <<Op("repeat", "", augmentation_times),
                               Op("map", "rand_augment", 0)>>
               ELSE train,
     valid |-> valid]

\* lines 115-116
batch_step(train, valid) ==
    [train |-> Append(train, Op("batch", "", 0)),
     valid |-> Append(valid, Op("batch", "", 0))]

InitMain ==
    /\ fs = [n \in EntryNames |-> NoEntry]
    /\ fs_changes = 0
    /\ NoLoader
    /\ m_pc = "start"
    /\ args \in ArgSets
    /\ train_dataset = <<>>
    /\ valid_dataset = <<>>
    /\ trace = <<>>
    /\ m_model = [type |-> "none", stage |-> "none"]
    /\ m_err = "none"

Raise(exception) ==
    /\ m_pc' = "failed"
    /\ m_err' = exception
    /\ UNCHANGED <<train_dataset, valid_dataset, trace, m_model>>

\* lines 25-59
MainLoadDataset ==
    /\ m_pc = "start"
    /\ LET source == DatasetSource(args.dataset_name,
                                   args.original_dataset_path)
           ratio == train_ratio(args.valid_per_train)
       IN  CASE source = "tfds" ->
                  /\ train_dataset' = <<Op("tfds.load", "train[:r%]", ratio)>>
                  /\ valid_dataset' = <<Op("tfds.load", "train[r%:]", ratio)>>
                  /\ trace' = Append(trace, "load")
                  /\ m_pc' = "loaded"
                  /\ UNCHANGED <<m_model, m_err>>
             [] source = "directory" ->
                  IF CallBinds(LoaderInitParams, LoaderInitRequired,
                               DriverLoaderCall)
                  THEN /\ train_dataset' =
                            <<Op("OriginalDatasetLoader.load", "train", 0)>>
                       /\ valid_dataset' =
                            <<Op("OriginalDatasetLoader.load", "valid", 0)>>
                       /\ trace' = Append(trace, "load")
                       /\ m_pc' = "loaded"
                       /\ UNCHANGED <<m_model, m_err>>
                  ELSE Raise("TypeError")
             [] OTHER -> Raise(source)
    /\ UNCHANGED args
    /\ UNCHANGED loader_vars
    /\ UNCHANGED env_vars

\* lines 61-63
MainDatasetSize ==
    /\ m_pc = "loaded"
    /\ LET out == dataset_size_step(train_dataset, valid_dataset,
                                    args.dataset_size)
       IN  /\ train_dataset' = out.train
           /\ valid_dataset' = out.valid
           /\ trace' = IF args.dataset_size # -1 THEN Append(trace, "cap")
                       ELSE trace
    /\ m_pc' = "sized"
    /\ UNCHANGED <<args, m_model, m_err>>
    /\ UNCHANGED loader_vars
    /\ UNCHANGED env_vars

\* lines 65-107
MainPreprocess ==
    /\ m_pc = "sized"
    /\ LET fn == PreprocessOf(args.model_type)
       IN  IF fn = "ValueError"
           THEN Raise("ValueError")
           ELSE LET out == preprocess_step(train_dataset, valid_dataset, fn)
                IN  /\ train_dataset' = out.train
                    /\ valid_dataset' = out.valid
                    /\ trace' = Append(trace, "preprocess")
                    /\ m_model' = [type |-> args.model_type,
                                   stage |-> "constructed"]
                    /\ m_pc' = "preprocessed"
                    /\ UNCHANGED m_err
    /\ UNCHANGED args
    /\ UNCHANGED loader_vars
    /\ UNCHANGED env_vars

\* lines 109-113
MainAugment ==
    /\ m_pc = "preprocessed"
    /\ LET out == augment_step(train_dataset, valid_dataset,
                               args.augmentation_times)
       IN  /\ train_dataset' = out.train
           /\ valid_dataset' = out.valid
           /\ trace' = IF args.augmentation_times # 0
                       THEN Append(trace, "augment")
                       ELSE trace
    /\ m_pc' = "augmented"
    /\ UNCHANGED <<args, m_model, m_err>>
    /\ UNCHANGED loader_vars
    /\ UNCHANGED env_vars

\* lines 114-116
MainBatch ==
    /\ m_pc = "augmented"
    /\ LET out == batch_step(train_dataset, valid_dataset)
       IN  /\ train_dataset' = out.train
           /\ valid_dataset' = out.valid
    /\ trace' = Append(trace, "batch")
    /\ m_pc' = "batched"
    /\ UNCHANGED <<args, m_model, m_err>>
    /\ UNCHANGED loader_vars
    /\ UNCHANGED env_vars

\* lines 118-119
MainBuild ==
    /\ m_pc = "batched"
    /\ m_model' = [m_model EXCEPT !.stage = "built"]
    /\ trace' = Append(trace, "build")
    /\ m_pc' = "built"
    /\ UNCHANGED <<args, train_dataset, valid_dataset, m_err>>
    /\ UNCHANGED loader_vars
    /\ UNCHANGED env_vars

\* lines 120-133
MainCompile ==
    /\ m_pc = "built"
    /\ m_model' = [m_model EXCEPT !.stage = "compiled"]
    /\ trace' = Append(trace, "compile")
    /\ m_pc' = "compiled"
    /\ UNCHANGED <<args, train_dataset, valid_dataset, m_err>>
    /\ UNCHANGED loader_vars
    /\ UNCHANGED env_vars

\* lines 135-142
MainFit ==
    /\ m_pc = "compiled"
    /\ m_model' = [m_model EXCEPT !.stage = "fitted"]
    /\ trace' = Append(trace, "fit")
    /\ m_pc' = "done"
    /\ UNCHANGED <<args, train_dataset, valid_dataset, m_err>>
    /\ UNCHANGED loader_vars
    /\ UNCHANGED env_vars

NextMain ==
    \/ MainLoadDataset
    \/ MainDatasetSize
    \/ MainPreprocess
    \/ MainAugment
    \/ MainBatch
    \/ MainBuild
    \/ MainCompile
    \/ MainFit

SpecMain == InitMain /\ [][NextMain]_vars

(***************************************************************************)
(* Properties of the loader (specification Spec).                          *)
(***************************************************************************)
\* k is the floor of n/d, stated without division.
IsFloor(k, n, d) == k * d <= n /\ n < (k + 1) * d
InUnitInterval(fraction) == 0 <= fraction[1] /\ fraction[1] <= fraction[2]
Images(ds) == [i \in 1..Len(ds) |-> ds[i].image]
Returned == ret.status = "ok"
LoaderExists == l_pc \in {"constructed", "loading"}

\* C1: for every tree with N enumerated images and every fraction f, read
\* as a proportion 0 <= f <= 1, the split point is floor(N * f), and a
\* load() of the tree as enumerated gives the first num_train paths, in
\* enumeration order, as the train partition and the rest, in the same
\* order, as the validation partition, the two sizes adding up to N.
C1_SplitOfEveryTree ==
    LET N == Len(image_paths)
    IN  (LoaderExists /\ InUnitInterval(valid_per_train)) =>
            /\ IsFloor(num_train_images, N * valid_per_train[1],
                       valid_per_train[2])
            /\ ret.status \notin {"none", "KeyError"} =>
                  /\ Returned
                  /\ Len(ret.train) = num_train_images
                  /\ Images(ret.train)
                        = SubSeq(image_paths, 1, num_train_images)
                  /\ Images(ret.valid)
                        = SubSeq(image_paths, num_train_images + 1, N)
                  /\ num_train_images + Len(ret.valid) = N
                  /\ Images(ret.train) \o Images(ret.valid) = image_paths

\* a is before b in code-point order, stated without recursion.
LexBefore(a, b) ==
    \E k \in 1..(Len(b)) :
        /\ \A i \in 1..(k - 1) : i <= Len(a) /\ a[i] = b[i]
        /\ \/ k = Len(a) + 1
           \/ k <= Len(a) /\ a[k] < b[k]
\* The index a name has among the directories of a tree: how many of them
\* come before it.  No enumeration order enters this definition.
CanonicalIndex(tree, n) == Cardinality({d \in Dirs(tree) : LexBefore(d, n)})

\* After a load of the tree as it is now: the vocabulary is sorted, holds
\* the directories and nothing else, and maps each to its position.
VocabularyState ==
    label_of # {} =>
        /\ Range(label_names) = Dirs(fs)
        /\ Len(label_names) = Cardinality(Dirs(fs))
        /\ \A i, j \in 1..Len(label_names) :
              i < j => LexBefore(label_names[i], label_names[j])
        /\ DOMAIN label_to_index = Dirs(fs)
        /\ \A i \in 1..Len(label_names) :
              label_to_index[label_names[i]] = i - 1
        /\ \A a, b \in DOMAIN label_to_index :
              label_to_index[a] = label_to_index[b] => a = b
        /\ {label_to_index[n] : n \in DOMAIN label_to_index}
              = 0..(Len(label_names) - 1)
        /\ \A pl \in label_of : pl[2] = CanonicalIndex(fs, pl[1][1])
        /\ Returned =>
              \A e \in Range(ret.train) \cup Range(ret.valid) :
                  e.label = CanonicalIndex(fs, e.image[1])
\* A further load of the unchanged tree gives every image the index it had.
SameIndexOnReload ==
    \A old \in label_of, new \in label_of' :
        old[1] = new[1] => old[2] = new[2]

\* C2: after a load of the tree as it is now, the vocabulary is the sorted
\* sequence of the names of the root's directories (plain files excluded),
\* each mapped to its zero-based position, injectively and onto
\* 0..|vocabulary|-1; every image has the index its parent directory has
\* in that order, whatever order the file system enumerated, and keeps it
\* on every further load of the unchanged tree.
C2_VocabularyDeterministic ==
    [](VocabularyState) /\ [][SameIndexOnReload]_vars

\* C2, witness: a load has returned on a tree with a plain file at the label
\* level and at least two directories, whose images were enumerated in another
\* order than the sorted one.
C2_Witness ==
    /\ label_of # {}
    /\ Returned
    /\ Len(label_names) >= 2
    /\ \E n \in EntryNames : fs[n].kind = "file"
    /\ \E i, j \in 1..Len(image_paths) :
          i < j /\ LexBefore(image_paths[j][1], image_paths[i][1])

LabelsIn(ds) == {ds[i].label : i \in 1..Len(ds)}

\* C3: the num_classes of a returned record is the number of distinct
\* label indices over the train and validation partitions together.
C3_NumClassesCountsLabelsPresent ==
    Returned =>
        /\ "num_classes" \in DOMAIN ret.info
        /\ ret.info["num_classes"]
              = Cardinality(LabelsIn(ret.train) \cup LabelsIn(ret.valid))
        /\ ret.info["num_classes"]
              = Cardinality({ParentName(image_paths[i]) :
                                 i \in 1..Len(image_paths)})

\* C3, witness: a returned load where a directory holds no image, so that
\* num_classes is below the vocabulary size, and a class occurs in the
\* validation partition only.
C3_Witness ==
    /\ Returned
    /\ ret.info["num_classes"] < Len(label_names)
    /\ LabelsIn(ret.valid) \ LabelsIn(ret.train) # {}
    /\ ret.train # <<>>

\* C4: the record load() returns has a num_train field holding the split
\* point, and a load() on a root without images returns a record with
\* num_train = 0.
C4_RecordHasNumTrain ==
    /\ Returned =>
          /\ "num_train" \in DOMAIN ret.info
          /\ ret.info["num_train"] = num_train_images
    /\ (ret.status # "none" /\ image_paths = <<>>) =>
          /\ Returned
          /\ "num_train" \in DOMAIN ret.info
          /\ ret.info["num_train"] = 0

MissingParent ==
    \E i \in 1..Len(image_paths) :
        ParentName(image_paths[i]) \notin Range(label_names)

\* C5: a label pass that meets an image whose parent directory name is not
\* in the vocabulary ends load() with KeyError, with no partition and no
\* record returned; a load that returns has skipped no image and given
\* every image the index of its own parent.
C5_LookupErrorOnUnknownParent ==
    ret.status \in {"ok", "KeyError"} =>
        /\ MissingParent <=> ret.status = "KeyError"
        /\ ret.status = "KeyError" =>
              /\ ret.train = <<>>
              /\ ret.valid = <<>>
              /\ ret.info = EmptyInfo
        /\ Returned =>
              /\ Len(ret.train) + Len(ret.valid) = Len(image_paths)
              /\ \A e \in Range(ret.train) \cup Range(ret.valid) :
                    /\ ParentName(e.image) \in DOMAIN label_to_index
                    /\ e.label = label_to_index[ParentName(e.image)]

\* C5, witness: load() has raised KeyError for a list in which one image's
\* parent is in the vocabulary and another's is not.
C5_Witness ==
    /\ ret.status = "KeyError"
    /\ MissingParent
    /\ \E i \in 1..Len(image_paths) :
          ParentName(image_paths[i]) \in Range(label_names)

\* C9 as stated: the vocabulary of a label pass is that of the snapshot
\* from which the image paths were enumerated.
C9_VocabularyOfSnapshot ==
    ret.status \in {"ok", "KeyError"} => Range(label_names) = snapshot_dirs

\* The step in which load() ends its label pass.
LoadPass ==
    /\ fs_changes' = fs_changes
    /\ l_pc \in {"constructed", "loading"}
    /\ l_pc' = "constructed"
    /\ ret'.status \in {"ok", "KeyError"}

\* C9, amended: the image paths and the split point are those __init__
\* read and are not refreshed; every load() reads its vocabulary anew from
\* the tree, and a load() under which the tree does not change takes the
\* vocabulary of the tree as it is at that call.
C9_VocabularyOfTreeAtLoad ==
    [][LoadPass =>
          /\ ~disturbed => Range(label_names') = Dirs(fs)
          /\ Range(label_names') \subseteq Range(met) \cup Range(pending)
          /\ image_paths' = image_paths
          /\ num_train_images' = num_train_images
          /\ snapshot_dirs' = snapshot_dirs
          /\ \A i \in 1..Len(image_paths) :
                ParentName(image_paths[i]) \in snapshot_dirs]_vars

\* C9, witness: load() has returned with a vocabulary that is not the
\* snapshot's: a directory was added after construction and has shifted an
\* index.
C9_Witness ==
    /\ Returned
    /\ label_of # {}
    /\ snapshot_dirs # Dirs(fs)
    /\ Range(label_names) = Dirs(fs)
    /\ \E pl \in label_of : pl[2] # Cardinality({d \in snapshot_dirs :
                                                     LexBefore(d, pl[1][1])})

(***************************************************************************)
(* Properties of the driver (specification SpecMain).                      *)
(***************************************************************************)
NameGiven == args.dataset_name # "None"
PathGiven == args.original_dataset_path # "None"
PastSourceSelection == m_pc # "start"
NoDatasetLoaded ==
    /\ train_dataset = <<>>
    /\ valid_dataset = <<>>
    /\ "load" \notin Range(trace)
AbortedAtSourceSelection ==
    /\ m_pc = "failed"
    /\ m_err = "AssertionError"
    /\ NoDatasetLoaded

\* C6 as stated: unless exactly one of the two sources is given, the run
\* aborts with the configuration error and loads no dataset.
C6_ExactlyOneSource ==
    (PastSourceSelection /\ (NameGiven <=> PathGiven))
        => AbortedAtSourceSelection

\* C6, amended: with neither source given the run aborts with the
\* configuration error and loads no dataset; with both given there is no
\* configuration error: dataset_name wins and the named dataset is loaded.
C6_NeitherFailsBothLoadNamed ==
    PastSourceSelection =>
        /\ (~NameGiven /\ ~PathGiven) => AbortedAtSourceSelection
        /\ (NameGiven /\ PathGiven) =>
              /\ m_err # "AssertionError"
              /\ Len(trace) >= 1 /\ trace[1] = "load"
              /\ Len(train_dataset) >= 1
              /\ train_dataset[1].op = "tfds.load"
              /\ valid_dataset[1].op = "tfds.load"
        /\ m_err = "AssertionError" => (~NameGiven /\ ~PathGiven)

\* C6, witness: both sources were given and the named dataset is loaded.
C6_Witness ==
    /\ NameGiven
    /\ PathGiven
    /\ m_pc = "loaded"
    /\ train_dataset[1].op = "tfds.load"

UnknownModel == args.model_type \notin {"SimpleCNN", "VGG16", "Xception"}
HasOp(ds, name) == \E i \in 1..Len(ds) : ds[i].op = name

\* C7 as stated: the unknown-model error is raised before the dataset is
\* loaded.
C7_ErrorBeforeAnyWork == m_err = "ValueError" => NoDatasetLoaded

\* C7, amended: with an unknown model_type the run never maps a
\* preprocessing function, constructs a model, builds, compiles or fits;
\* but the error is raised only after the dataset-loading step and the
\* size cap have run, so the dataset has been loaded by then.
C7_ErrorAfterLoadBeforeModel ==
    /\ UnknownModel =>
          /\ m_model.type = "none"
          /\ m_pc \in {"start", "loaded", "sized", "failed"}
          /\ ~HasOp(train_dataset, "map") /\ ~HasOp(valid_dataset, "map")
          /\ m_pc = "failed" =>
                m_err \in {"ValueError", "TypeError", "AssertionError"}
    /\ m_err = "ValueError" =>
          /\ UnknownModel
          /\ m_pc = "failed"
          /\ Len(trace) >= 1 /\ trace[1] = "load"
          /\ train_dataset # <<>> /\ valid_dataset # <<>>
          /\ HasOp(train_dataset, "take") <=> args.dataset_size # -1

\* C7, witness: the unknown-model error has been raised on a dataset that
\* was loaded and capped.
C7_Witness ==
    /\ m_err = "ValueError"
    /\ trace = <<"load", "cap">>
    /\ train_dataset[1].op = "tfds.load"

\* C8: with only original_dataset_path given, the driver gets past the
\* construction of the loader and its load().
C8_DirectoryBranchLoads ==
    (~NameGiven /\ PathGiven /\ PastSourceSelection) =>
        /\ m_err # "TypeError"
        /\ "load" \in Range(trace)

StepRank(step) ==
    CASE step = "load" -> 1
      [] step = "cap" -> 2
      [] step = "preprocess" -> 3
      [] step = "augment" -> 4
      [] step = "batch" -> 5
      [] step = "build" -> 6
      [] step = "compile" -> 7
      [] step = "fit" -> 8
OpNames(ds) == [i \in 1..Len(ds) |-> ds[i].op]
PreprocessFns == {"base_preprocess", "vgg_preprocess", "xception_preprocess"}

\* C10: the steps a run has taken are in the order load, (cap,)
\* preprocess, (augment,) batch, build, compile, fit, none of them twice;
\* a run that has fitted took them all, the cap exactly when dataset_size
\* is not -1 and the augmentation exactly when augmentation_times is not
\* 0; the validation partition went through load, preprocessing and
\* batching only, and the train partition through the cap and the
\* augmentation as well.
C10_LinearPipeline ==
    /\ \A i, j \in 1..Len(trace) :
          i < j => StepRank(trace[i]) < StepRank(trace[j])
    /\ m_pc = "done" =>
          /\ {"load", "preprocess", "batch", "build", "compile", "fit"}
                \subseteq Range(trace)
          /\ "cap" \in Range(trace) <=> args.dataset_size # -1
          /\ "augment" \in Range(trace) <=> args.augmentation_times # 0
          /\ m_model.stage = "fitted"
          /\ OpNames(valid_dataset) = <<"tfds.load", "map", "batch">>
          /\ valid_dataset[2].fn \in PreprocessFns
          /\ OpNames(train_dataset) =
                <<"tfds.load">>
                \o (IF args.dataset_size # -1 THEN <<"shuffle", "take">>
                    ELSE <<>>)
                \o <<"map">>
                \o (IF args.augmentation_times # 0 THEN <<"repeat", "map">>
                    ELSE <<>>)
                \o <<"batch">>
          /\ \A i \in 1..Len(train_dataset) :
                train_dataset[i].fn = "rand_augment" =>
                    /\ i > 1
                    /\ train_dataset[i - 1].op = "repeat"
                    /\ train_dataset[i - 1].n = args.augmentation_times

\* C10, witness: a run has fitted with the size cap and augmentation on.
C10_Witness ==
    /\ m_pc = "done"
    /\ args.dataset_size # -1
    /\ args.augmentation_times # 0
    /\ Len(train_dataset) = 7
    /\ Len(valid_dataset) = 3

====
